---- MODULE Spec2Model ----
(***************************************************************************)
(* Model of scraper/bunpro.py: the sleep budget allocator                  *)
(* (gen_random_sleeps), the persistence sink (save_source_code), the       *)
(* outcome classifier (process_response) and the crawl executor            *)
(* (the generator scrape_sites) together with the caller that drives it.   *)
(*                                                                         *)
(* Strings are sequences of tokens.  A token is a character ("a", "b",     *)
(* ".", "_"), a percent-escape ("%2E", the escape of "."), the extension   *)
(* "html" or the 14-digit strftime stamp of one second (ToString(second)). *)
(* A site is the list site.split("/") of its path segments.                *)
(***************************************************************************)
EXTENDS Integers, Sequences, FiniteSets, TLC

VARIABLES
    \* ---- scrape_sites (generator frame) and its caller ----
    sites,          \* argument sites
    times,          \* argument times
    min_session_interval, \* argument min_session_interval
    pc,             \* position of the generator
    idx,            \* number of (site, sleep_time) pairs taken from zip
    session,        \* local variable session: None or a session id
    skip_sites,     \* local variable skip_sites (snapshot of the listing)
    response,       \* what the fetch of the current pair produced
    via,            \* how the current request was issued
    yielded,        \* ResponseResults delivered to the caller, in order
    yieldedAt,      \* pair index of each delivered ResponseResult
    requests,       \* network requests issued: <<pair index, via>>
    classified,     \* results of process_response: [idx, status, action, scraped]
    first429,       \* index of the first pair answered with status 429, or 0
    run,            \* 1 = first batch, 2 = batch re-run on the same store
    opened,         \* number of requests.Session() objects created
    live,           \* ids of sessions created and not yet closed
    \* ---- output store and clock ----
    store,          \* grammar_pages: file name |-> content
    now,            \* dt.datetime.now(), in seconds
    slept,          \* time.sleep calls made: [run, idx, status, duration]
    \* ---- the __main__ block ----
    main_pc,        \* position of the __main__ block
    level,          \* number of entries of LEVELS taken by the for loop
    catalog,        \* grammar_points.json: the sites of each level
    all_results,    \* the list all_results
    scrape_results, \* content of scrape_results.json
    log_written,    \* scrape_results.json has been written
    \* ---- gen_random_sleeps frame ----
    g_pc, min_sleep, max_total_time, n_requests, remaining_time,
    sleep_intervals, g_i, g_result

scrapeVars == <<sites, times, min_session_interval, pc, idx, session,
                skip_sites, response, via, yielded, yieldedAt, requests,
                classified,
                first429, run, opened, live>>
storeVars == <<store, now, slept>>
allocVars == <<g_pc, min_sleep, max_total_time, n_requests, remaining_time,
               sleep_intervals, g_i, g_result>>
mainVars == <<main_pc, level, catalog, all_results, scrape_results,
              log_written>>
vars == <<scrapeVars, storeVars, allocVars, mainVars>>

\* Python's None in the variable session; session ids start at 1.
None == 0

(***************************************************************************)
(* Bounds of the model.                                                    *)
(***************************************************************************)
MaxSites == 3        \* longest sites / times list
MaxResume == 1       \* longest batch that is run a second time
MaxTick == 2         \* last second of the clock in the persistence runs
MaxCount == 3        \* largest n_requests
MaxMin == 2          \* largest min_sleep
MaxTotal == 5        \* largest max_total_time
MaxLevels == 2       \* entries of LEVELS the catalog has

(***************************************************************************)
(* String helpers.                                                         *)
(***************************************************************************)
\* urllib.parse.unquote: every percent-escape becomes its character.
unquote(s) == [k \in 1..Len(s) |-> IF s[k] = "%2E" THEN "." ELSE s[k]]

\* str.split(".")[0]: the part before the first "." (all of it if none).
SplitDotHead(s) ==
    LET dots == {k \in 1..Len(s) : s[k] = "."}
        first == IF dots = {} THEN Len(s) + 1
                 ELSE CHOOSE k \in dots : \A j \in dots : k <= j
    IN  SubSeq(s, 1, first - 1)

\* site.split("/")[-1]
LastSegment(site) == site[Len(site)]

\* strftime("%Y%m%d%H%M%S"): one distinct stamp per second.
Stamp(t) == ToString(t)

(***************************************************************************)
(* Inputs.                                                                 *)
(***************************************************************************)
SegA == <<"a">>
SegEnc == <<"a", "%2E", "b">>       \* the quoted form of "a.b"
SegAB == unquote(SegEnc)

\* base_url + url, split at "/"
Site(seg) == <<<<"https:">>, <<>>, <<"bunpro.jp">>, <<"grammar_points">>, seg>>

Targets == {Site(SegA), Site(SegEnc)}
Delays == {1, 40}
MIN_SESSION_INTERVAL == 30

\* HTTP statuses a response can carry, and the exceptions a fetch can raise.
Statuses == {200, 429, 500}
FetchErrors == {"Timeout", "ConnectionError"}

\* Values of the variable response.
NoResponse == [kind |-> "none"]
Response(status) == [kind |-> "response", status_code |-> status]
Raised(e) == [kind |-> "exception", exc |-> e]

HtmlName(seg) == seg \o <<".", "html">>
File(name, content) == [name |-> name, content |-> content]

\* Output stores a batch can start from.
InitStores == { {},
                {File(HtmlName(SegA), "old")},
                {File(HtmlName(SegAB), "old")} }

SeqsUpTo(S, n) == UNION {[1..k -> S] : k \in 0..n}
Min(a, b) == IF a <= b THEN a ELSE b

(***************************************************************************)
(* The output store.                                                       *)
(***************************************************************************)
\* os.listdir
listdir(st) == {f.name : f \in st}
\* os.path.exists
exists(st, name) == name \in listdir(st)

\* open(filename, "w").write(content): creates or truncates the file.
WriteFile(st, name, content) ==
    {f \in st : f.name # name} \cup {File(name, content)}

\* The name save_source_code writes to (lines 115-134).
SaveName(st, site, t) ==
    LET filename == unquote(LastSegment(site)) \o <<".", "html">>
    IN  IF exists(st, filename)
        THEN filename \o <<"_", Stamp(t), ".", "html">>
        ELSE filename

\* save_source_code(soup, site): the store after the call.  ioerr: open or
\* write raised IOError, which is logged and swallowed.
save_source_code(st, content, site, t, ioerr) ==
    IF ioerr THEN st ELSE WriteFile(st, SaveName(st, site, t), content)

\* An IOError of open / write that no handler catches.
SaveRaises_Uncaught(ioerr) == ioerr

\* save_source_code lets an exception out: never, the IOError of open / write
\* is caught at line 139.
SaveRaises(ioerr) == FALSE

(***************************************************************************)
(* process_response (lines 143-161).                                       *)
(***************************************************************************)
\* A raise_for_status that raises for the 4xx statuses only.
raise_for_status_Only4xx(status) == status >= 400 /\ status < 500

\* requests.Response.raise_for_status: HTTPError for every 4xx / 5xx status.
raise_for_status(status) == status >= 400 /\ status < 600

ResponseResult(action, site, sleep_time, scraped) ==
    [action |-> action, site |-> site, sleep_time |-> sleep_time,
     scraped |-> scraped]

\* A classifier whose HTTPError handler stops the batch.
process_response_action_ErrorBreaks(status) ==
    IF raise_for_status(status) THEN "break" ELSE "scrape"

\* The action process_response returns for a response with this status.
process_response_action(status) ==
    IF raise_for_status(status) THEN "error"       \* except HTTPError
    ELSE IF status = 429 THEN "break"              \* line 146
    ELSE "scrape"                                  \* line 154

(***************************************************************************)
(* scrape_sites (lines 164-227).                                           *)
(***************************************************************************)
\* skip_sites = [site.split(".")[0] for site in os.listdir(..)]
SkipSites(st) == {SplitDotHead(n) : n \in listdir(st)}

\* A skip test that never skips.
IsSkipped_Never(site, skip) == FALSE

\* A skip test against a fresh listing of the store.
IsSkipped_LiveListing(site, skip) ==
    unquote(LastSegment(site)) \in SkipSites(store)

\* line 180
IsSkipped(site, skip) == unquote(LastSegment(site)) \in skip

\* zip(sites, times) is exhausted after the shorter list.
NPairs == Min(Len(sites), Len(times))

\* A zip that pairs every site with the first delay.
ZipPair_FirstDelay(ss, ts, k) == <<ss[k], ts[1]>>

\* The k-th (site, sleep_time) pair of zip(sites, times).
ZipPair(ss, ts, k) == <<ss[k], ts[k]>>

\* A loop that takes the first pair again and again.
NextIndex_Repeat(i) == IF i = 0 THEN 1 ELSE i

\* The for loop takes the next pair from zip (line 171).
NextIndex(i) == i + 1

\* line 188
UseSession(sleep_time, threshold) == sleep_time < threshold

\* A session is created for every session request.
NeedNewSession_Always(s) == TRUE

\* line 190
NeedNewSession(s) == s = None

\* The session is kept open across a direct request.
MustCloseBeforeDirect_Never(s) == FALSE

\* line 195
MustCloseBeforeDirect(s) == s # None

\* session.close()
Close(s, lv) == lv \ {s}

\* A finally clause that closes whatever session is held.
Finally_CloseAlways(s, lv, sleep_time, threshold) ==
    IF s # None THEN <<None, Close(s, lv)>> ELSE <<s, lv>>

\* The finally clause of the per-request try (lines 212-216):
\* <<session, live>> after it.
Finally(s, lv, sleep_time, threshold) ==
    IF s # None /\ sleep_time >= threshold
    THEN <<None, Close(s, lv)>>
    ELSE <<s, lv>>

\* The except KeyboardInterrupt handler (lines 218-223): live after it.
OnKeyboardInterrupt(s, lv) == IF s # None THEN Close(s, lv) ELSE lv

\* The session is not closed after the loop.
CloseAfterLoop_Forgotten(s, lv) == lv

\* Lines 225-227: live after the loop.
CloseAfterLoop(s, lv) == IF s # None THEN Close(s, lv) ELSE lv

IdleScrape ==
    /\ sites = <<>> /\ times = <<>>
    /\ min_session_interval = MIN_SESSION_INTERVAL
    /\ pc = "idle" /\ idx = 0 /\ session = None /\ skip_sites = {}
    /\ response = NoResponse /\ via = "none"
    /\ yielded = <<>> /\ yieldedAt = <<>> /\ requests = <<>>
    /\ classified = <<>> /\ first429 = 0 /\ run = 1
    /\ opened = 0 /\ live = {}

IdleMain ==
    /\ main_pc = "none" /\ level = 0 /\ catalog = <<>>
    /\ all_results = <<>> /\ scrape_results = <<>> /\ log_written = FALSE

IdleAlloc ==
    /\ g_pc = "idle" /\ min_sleep = 0 /\ max_total_time = 0 /\ n_requests = 0
    /\ remaining_time = 0 /\ sleep_intervals = <<>> /\ g_i = 0
    /\ g_result = <<>>

\* The schedule of the session-discipline example: four targets with delays
\* 1, 1, 40, 1 and an empty store.
ExampleSites == <<Site(SegA), Site(SegEnc), Site(SegA), Site(SegEnc)>>
ExampleTimes == <<1, 1, 40, 1>>

Abs(n) == IF n < 0 THEN -n ELSE n

InitScrape ==
    /\ \/ /\ sites \in SeqsUpTo(Targets, MaxSites)
          /\ times \in SeqsUpTo(Delays, MaxSites)
          /\ Abs(Len(sites) - Len(times)) <= 1
          /\ store \in InitStores
       \/ /\ sites = ExampleSites
          /\ times = ExampleTimes
          /\ store = {}
    /\ min_session_interval = MIN_SESSION_INTERVAL
    /\ pc = "init" /\ idx = 0 /\ session = None /\ skip_sites = {}
    /\ response = NoResponse /\ via = "none"
    /\ yielded = <<>> /\ yieldedAt = <<>> /\ requests = <<>>
    /\ classified = <<>> /\ first429 = 0 /\ run = 1
    /\ opened = 0 /\ live = {}
    /\ now = 0 /\ slept = <<>>

Init == InitScrape /\ IdleAlloc /\ IdleMain

\* The loop variables site and sleep_time of the current iteration.
site == ZipPair(sites, times, idx)[1]
sleep_time == ZipPair(sites, times, idx)[2]

\* The caller's first next(): lines 165-168.
Start ==
    /\ pc = "init"
    /\ skip_sites' = SkipSites(store)
    /\ session' = None
    /\ pc' = "loop"
    /\ UNCHANGED <<sites, times, min_session_interval, idx, response, via,
                   yielded, yieldedAt, requests, classified, first429, run,
                   opened, live, storeVars, allocVars, mainVars>>

\* The for loop finds zip exhausted.
Exhaust ==
    /\ pc = "loop" /\ idx >= NPairs
    /\ pc' = "after_loop"
    /\ UNCHANGED <<sites, times, min_session_interval, idx, session,
                   skip_sites, response, via, yielded, yieldedAt, requests,
                   classified, first429, run, opened, live, storeVars,
                   allocVars, mainVars>>

\* Lines 179-182: the next pair is skipped (continue).
Skip ==
    /\ pc = "loop" /\ idx < NPairs
    /\ IsSkipped(ZipPair(sites, times, NextIndex(idx))[1], skip_sites)
    /\ idx' = NextIndex(idx)
    /\ UNCHANGED <<sites, times, min_session_interval, pc, session,
                   skip_sites, response, via, yielded, yieldedAt, requests,
                   classified, first429, run, opened, live, storeVars,
                   allocVars, mainVars>>

\* Lines 185-198: the next pair is dispatched; the request is in flight.
Dispatch ==
    /\ pc = "loop" /\ idx < NPairs
    /\ ~IsSkipped(ZipPair(sites, times, NextIndex(idx))[1], skip_sites)
    /\ idx' = NextIndex(idx)
    /\ LET next_sleep == ZipPair(sites, times, NextIndex(idx))[2] IN
       IF UseSession(next_sleep, min_session_interval)
       THEN /\ IF NeedNewSession(session)
               THEN /\ opened' = opened + 1
                    /\ session' = opened + 1
                    /\ live' = live \cup {opened + 1}
               ELSE UNCHANGED <<opened, session, live>>
            /\ via' = "session"
       ELSE /\ IF MustCloseBeforeDirect(session)
               THEN /\ live' = Close(session, live)
                    /\ session' = None
               ELSE UNCHANGED <<session, live>>
            /\ opened' = opened
            /\ via' = "direct"
    /\ requests' = Append(requests, [run |-> run, idx |-> idx', via |-> via'])
    /\ response' = NoResponse
    /\ pc' = "fetching"
    /\ UNCHANGED <<sites, times, min_session_interval, skip_sites, yielded,
                   yieldedAt, classified, first429, run, storeVars, allocVars, mainVars>>

\* Lines 206-211: the fetch raised Timeout or another RequestException; the
\* error result is yielded.
FetchFails ==
    /\ pc = "fetching"
    /\ \E e \in FetchErrors :
        /\ response' = Raised(e)
        /\ yielded' = Append(yielded,
               ResponseResult("error", site, sleep_time, FALSE))
        /\ yieldedAt' = Append(yieldedAt, idx)
    /\ pc' = "yielded"
    /\ UNCHANGED <<sites, times, min_session_interval, idx, session,
                   skip_sites, via, requests, classified, first429, run,
                   opened, live, storeVars, allocVars, mainVars>>

\* Lines 200-204 with process_response up to its return or its time.sleep.
Receive ==
    /\ pc = "fetching"
    /\ \E status \in Statuses :
        LET action == process_response_action(status)
            result == ResponseResult(action, site, sleep_time, FALSE)
            fin == Finally(session, live, sleep_time, min_session_interval)
        IN  /\ response' = Response(status)
            /\ first429' = IF status = 429 /\ first429 = 0 THEN idx
                           ELSE first429
            /\ IF action = "scrape"
               THEN /\ pc' = "sleeping"
                    /\ UNCHANGED <<classified, yielded, yieldedAt, session,
                                   live>>
               ELSE /\ classified' = Append(classified,
                          [run |-> run, idx |-> idx, status |-> status,
                           action |-> action, scraped |-> FALSE,
                           ioerr |-> FALSE])
                    /\ IF action = "break"
                       THEN /\ pc' = "after_loop"
                            /\ session' = fin[1] /\ live' = fin[2]
                            /\ UNCHANGED <<yielded, yieldedAt>>
                       ELSE /\ pc' = "yielded"
                            /\ yielded' = Append(yielded, result)
                            /\ yieldedAt' = Append(yieldedAt, idx)
                            /\ UNCHANGED <<session, live>>
    /\ UNCHANGED <<sites, times, min_session_interval, idx, skip_sites, via,
                   requests, run, opened, storeVars, allocVars, mainVars>>

\* Line 150: time.sleep(sleep_time) returns.
Sleep ==
    /\ pc = "sleeping"
    /\ now' = now + sleep_time
    /\ slept' = Append(slept, [run |-> run, idx |-> idx,
                               status |-> response.status_code,
                               duration |-> sleep_time])
    /\ pc' = "saving"
    /\ UNCHANGED <<sites, times, min_session_interval, idx, session,
                   skip_sites, response, via, yielded, yieldedAt, requests,
                   classified, first429, run, opened, live, store, allocVars, mainVars>>

\* Lines 151-154 and 204: the page is saved, process_response returns the
\* "scrape" result and scrape_sites yields it.  An exception out of
\* save_source_code would be no RequestException and no KeyboardInterrupt:
\* it would pass the finally clause and reach the caller.
SaveAndYield ==
    /\ pc = "saving"
    /\ \E ioerr \in BOOLEAN :
        IF SaveRaises(ioerr)
        THEN /\ LET fin == Finally(session, live, sleep_time,
                                   min_session_interval)
                IN  session' = fin[1] /\ live' = fin[2]
             /\ pc' = "crashed"
             /\ UNCHANGED <<store, classified, yielded, yieldedAt>>
        ELSE /\ store' = save_source_code(store, "page", site, now, ioerr)
             /\ classified' = Append(classified,
                    [run |-> run, idx |-> idx,
                     status |-> response.status_code,
                     action |-> "scrape", scraped |-> TRUE,
                     ioerr |-> ioerr])
             /\ yielded' = Append(yielded,
                    ResponseResult("scrape", site, sleep_time, TRUE))
             /\ yieldedAt' = Append(yieldedAt, idx)
             /\ pc' = "yielded"
             /\ UNCHANGED <<session, live>>
    /\ UNCHANGED <<sites, times, min_session_interval, idx, skip_sites,
                   response, via, requests, first429, run, opened, now,
                   slept, allocVars, mainVars>>

\* The caller's next() on the suspended generator: the finally clause of the
\* per-request try runs and the loop goes on.
Resume ==
    /\ pc = "yielded"
    /\ LET fin == Finally(session, live, sleep_time, min_session_interval)
       IN  session' = fin[1] /\ live' = fin[2]
    /\ pc' = "loop"
    /\ UNCHANGED <<sites, times, min_session_interval, idx, skip_sites,
                   response, via, yielded, yieldedAt, requests, classified,
                   first429, run, opened, storeVars, allocVars, mainVars>>

\* Lines 225-227, then StopIteration reaches the caller.
Finish ==
    /\ pc = "after_loop"
    /\ live' = CloseAfterLoop(session, live)
    /\ pc' = "done"
    /\ UNCHANGED <<sites, times, min_session_interval, idx, session,
                   skip_sites, response, via, yielded, yieldedAt, requests,
                   classified, first429, run, opened, storeVars, allocVars, mainVars>>

\* Positions of the generator inside the per-request try (lines 187-216).
InInnerTry == pc \in {"fetching", "sleeping", "saving"}
\* Positions inside the outer try (lines 170-223) where the generator runs.
InOuterTry == pc = "loop" \/ InInnerTry

\* KeyboardInterrupt raised while the generator is running.  Inside the outer
\* try it passes the finally clause (when inside the inner try) and the
\* handler of lines 218-223; at lines 165-168 and 225-227 no handler covers it.
InterruptRunning ==
    /\ pc \in {"init", "loop", "fetching", "sleeping", "saving", "after_loop"}
    /\ LET fin == IF InInnerTry
                  THEN Finally(session, live, sleep_time, min_session_interval)
                  ELSE <<session, live>>
       IN  /\ session' = fin[1]
           /\ live' = IF InOuterTry THEN OnKeyboardInterrupt(fin[1], fin[2])
                      ELSE fin[2]
    /\ pc' = "interrupted"
    /\ UNCHANGED <<sites, times, min_session_interval, idx, skip_sites,
                   response, via, yielded, yieldedAt, requests, classified,
                   first429, run, opened, storeVars, allocVars, mainVars>>

\* KeyboardInterrupt raised in the caller while the generator is suspended at
\* a yield.  The generator is never resumed; when it is finalised,
\* GeneratorExit is thrown at the yield: it runs the finally clause and is
\* not caught by except KeyboardInterrupt.
InterruptSuspended ==
    /\ pc = "yielded"
    /\ LET fin == Finally(session, live, sleep_time, min_session_interval)
       IN  session' = fin[1] /\ live' = fin[2]
    /\ pc' = "abandoned"
    /\ UNCHANGED <<sites, times, min_session_interval, idx, skip_sites,
                   response, via, yielded, yieldedAt, requests, classified,
                   first429, run, opened, storeVars, allocVars, mainVars>>

Next ==
    \/ Start \/ Exhaust \/ Skip \/ Dispatch \/ FetchFails \/ Receive
    \/ Sleep \/ SaveAndYield \/ Resume \/ Finish
    \/ InterruptRunning \/ InterruptSuspended

Spec == Init /\ [][Next]_vars

\* The caller runs the batch again on the store the first run left, with the
\* same sites and times (the __main__ block run a second time).
Rerun ==
    /\ pc = "done" /\ run = 1
    /\ Len(sites) <= MaxResume
    /\ run' = 2
    /\ pc' = "init" /\ idx' = 0 /\ session' = None /\ skip_sites' = {}
    /\ response' = NoResponse /\ via' = "none"
    /\ yielded' = <<>> /\ yieldedAt' = <<>> /\ first429' = 0
    /\ UNCHANGED <<sites, times, min_session_interval, requests, classified,
                   opened, live, storeVars, allocVars, mainVars>>

NextResume == Next \/ Rerun

SpecResume == Init /\ [][NextResume]_vars

(***************************************************************************)
(* The __main__ block (lines 230-261): one batch per level, the results    *)
(* collected by list() and written to scrape_results.json at the end.      *)
(***************************************************************************)
MIN_SLEEP == 2
MAX_SLEEP == 8

\* Values of random.randint(MIN_SLEEP, MAX_SLEEP) used: the two ends.
SleepChoices == {MIN_SLEEP, MAX_SLEEP}

\* get_scrape_urls(JSON_PATH, level) for one level of the catalog.
LevelLists == {<<>>, <<Site(SegA)>>, <<Site(SegEnc)>>}

InitMain ==
    /\ IdleScrape /\ IdleAlloc
    /\ store \in InitStores /\ now = 0 /\ slept = <<>>
    /\ catalog \in [1..MaxLevels -> LevelLists]
    /\ main_pc = "loop" /\ level = 0
    /\ all_results = <<>> /\ scrape_results = <<>> /\ log_written = FALSE

\* Lines 239-252: the next level; a level without URLs is passed over,
\* otherwise the sleep times are drawn and the generator is created.
StartLevel ==
    /\ main_pc = "loop" /\ level < Len(catalog)
    /\ level' = level + 1
    /\ LET sites_to_scrape_list == catalog[level + 1] IN
       IF sites_to_scrape_list = <<>>
       THEN UNCHANGED <<scrapeVars, main_pc>>
       ELSE /\ sites' = sites_to_scrape_list
            /\ times' \in [1..Len(sites_to_scrape_list) -> SleepChoices]
            /\ min_session_interval' = MIN_SESSION_INTERVAL
            /\ pc' = "init" /\ idx' = 0 /\ session' = None
            /\ skip_sites' = {} /\ response' = NoResponse /\ via' = "none"
            /\ yielded' = <<>> /\ yieldedAt' = <<>> /\ first429' = 0
            /\ run' = level + 1
            /\ main_pc' = "scraping"
            /\ UNCHANGED <<requests, classified, opened, live>>
    /\ UNCHANGED <<catalog, all_results, scrape_results, log_written,
                   storeVars, allocVars>>

\* Lines 250-255: list() has drained the generator.
EndLevel ==
    /\ main_pc = "scraping" /\ pc = "done"
    /\ all_results' = all_results \o yielded
    /\ main_pc' = "loop"
    /\ pc' = "idle"
    /\ UNCHANGED <<sites, times, min_session_interval, idx, session,
                   skip_sites, response, via, yielded, yieldedAt, requests,
                   classified, first429, run, opened, live, level, catalog,
                   scrape_results, log_written, storeVars, allocVars>>

\* Lines 257-261: after the last level the results are written.
WriteResults ==
    /\ main_pc = "loop" /\ level >= Len(catalog)
    /\ scrape_results' = all_results
    /\ log_written' = TRUE
    /\ main_pc' = "finished"
    /\ UNCHANGED <<level, catalog, all_results, scrapeVars, storeVars,
                   allocVars>>

NextMain == Next \/ StartLevel \/ EndLevel \/ WriteResults

SpecMain == InitMain /\ [][NextMain]_vars

(***************************************************************************)
(* Derived views of the state.                                             *)
(***************************************************************************)
Range(q) == {q[k] : k \in 1..Len(q)}
\* Pair indices for which the current run issued a network request.
Requested == {r.idx : r \in {q \in Range(requests) : q.run = run}}
\* Pair indices whose ResponseResult the caller has received in this run.
Delivered == Range(yieldedAt)
Ended == pc \in {"done", "interrupted", "abandoned"}
\* Pair indices for which the current run made the politeness wait.
Slept == {w.idx : w \in {q \in Range(slept) : q.run = run}}
\* Pair i names a member of the snapshot skip_sites (lines 179-180).
InSnapshot(i) == unquote(LastSegment(sites[i])) \in skip_sites
\* The fetch of the current pair failed: exception or HTTP error status.
Failed(r) ==
    \/ r.kind = "exception"
    \/ r.kind = "response" /\ r.status_code >= 400

(***************************************************************************)
(* C1.  Every response with status 429 is classified by process_response   *)
(* as "break" with scraped = False, never as "error" or "scrape".          *)
(***************************************************************************)
C1_RateLimitIsHardStop ==
    \A k \in 1..Len(classified) :
        classified[k].status = 429 =>
            /\ classified[k].action = "break"
            /\ classified[k].scraped = FALSE

(***************************************************************************)
(* C2.  When pair k is the first one answered with status 429, no request  *)
(* is issued for any later pair, and the finished stream has delivered     *)
(* exactly one result for each pair dispatched up to k.                    *)
(***************************************************************************)
C2_HardStopShortCircuits ==
    first429 # 0 =>
        /\ \A i \in Requested : i <= first429
        /\ pc = "done" => Len(yielded) = Cardinality(Requested)

(***************************************************************************)
(* C3.  At most one session is live in every state; a session is created   *)
(* only while the variable session is None; the variable is set to None    *)
(* only when the session it held has been closed.                          *)
(***************************************************************************)
C3_AtMostOneLiveSession ==
    /\ [](Cardinality(live) <= 1)
    /\ [][opened' # opened => session = None /\ opened' = opened + 1]_vars
    /\ [][session # None /\ session' = None => session \notin live']_vars

\* A second session has been created after the first one was closed.
C3_Witness == opened = 2 /\ live = {2} /\ session = 2

(***************************************************************************)
(* C4.  While a request is in flight: it goes through the session iff the  *)
(* delay of its pair is below the threshold; a session request uses a      *)
(* live session, the one already held if there was one; a direct request   *)
(* finds no live session.  With delays 1, 1, 40, 1 and threshold 30 and    *)
(* no pair skipped: session 1 serves pairs 1 and 2, is closed for pair 3,  *)
(* and session 2 is created for pair 4.                                    *)
(***************************************************************************)
C4_InFlight ==
    pc = "fetching" =>
        /\ via = "session" <=> times[idx] < min_session_interval
        /\ via = "direct" <=> times[idx] >= min_session_interval
        /\ via = "session" => session # None /\ live = {session}
        /\ via = "direct" => session = None /\ live = {}

C4_Example ==
    (/\ pc = "fetching" /\ Len(times) >= 4
     /\ SubSeq(times, 1, 4) = ExampleTimes
     /\ min_session_interval = 30
     /\ Requested = 1..idx) =>
        /\ idx = 1 => opened = 1 /\ live = {1} /\ via = "session"
        /\ idx = 2 => opened = 1 /\ live = {1} /\ via = "session"
        /\ idx = 3 => opened = 1 /\ live = {} /\ via = "direct"
        /\ idx = 4 => opened = 2 /\ live = {2} /\ via = "session"

C4_ConnectionStrategy ==
    /\ [](C4_InFlight /\ C4_Example)
    /\ [][(pc = "loop" /\ pc' = "fetching" /\ via' = "session"
           /\ session # None) => session' = session /\ opened' = opened]_vars

\* The fourth request of the example schedule is in flight on a fresh session.
C4_Witness ==
    /\ pc = "fetching" /\ idx = 4 /\ times = ExampleTimes
    /\ Requested = 1..4 /\ session = 2

(***************************************************************************)
(* C5.  When the stream reports exhaustion to its caller, no session is    *)
(* live.                                                                   *)
(***************************************************************************)
C5_NoSessionAfterCompletion == pc = "done" => live = {}

\* The stream ended while the variable session still held a session.
C5_Witness == pc = "done" /\ session # None /\ opened >= 1

(***************************************************************************)
(* C6.  After a KeyboardInterrupt at any point of the run, no session is   *)
(* live once the interrupt has reached the caller.                         *)
(***************************************************************************)
C6_InterruptClosesSession ==
    pc \in {"interrupted", "abandoned"} => live = {}

(***************************************************************************)
(* C7.  Results are delivered in pair order, each with the site and the    *)
(* delay of its own pair, and a request for pair j is issued only after    *)
(* the result of every earlier non-skipped pair has been delivered.        *)
(***************************************************************************)
C7_OrderedUnbuffered ==
    /\ Len(yielded) = Len(yieldedAt)
    /\ \A k \in 1..Len(yieldedAt) :
        /\ yieldedAt[k] \in 1..NPairs
        /\ k > 1 => yieldedAt[k - 1] < yieldedAt[k]
        /\ yielded[k].site = sites[yieldedAt[k]]
        /\ yielded[k].sleep_time = times[yieldedAt[k]]
    /\ \A j \in Requested : \A i \in 1..(j - 1) :
        ~IsSkipped(sites[i], skip_sites) => i \in Delivered

\* Two results delivered around a skipped pair, with different delays.
C7_Witness ==
    /\ yieldedAt = <<1, 3>> /\ pc = "yielded"
    /\ times[1] # times[3] /\ sites[2] # sites[1]

(***************************************************************************)
(* C8.  On a second run of the batch over a store that holds the artifact  *)
(* of every target of the catalog, no request is issued and no result is   *)
(* delivered.                                                              *)
(***************************************************************************)
C8_ResumeSkipsEverything ==
    (/\ run = 2
     /\ \A i \in 1..Len(sites) :
            exists(store, HtmlName(unquote(LastSegment(sites[i]))))) =>
        /\ Requested = {}
        /\ yielded = <<>>

(***************************************************************************)
(* save_source_code called directly, at any second (lines 112-140).        *)
(***************************************************************************)
\* Page contents handed to save_source_code.
Pages == {"p1", "p2"}

InitSave ==
    /\ IdleScrape /\ IdleAlloc /\ IdleMain
    /\ store = {} /\ now = 0 /\ slept = <<>>

\* One call save_source_code(soup, site).
Save ==
    /\ \E target \in Targets, content \in Pages, ioerr \in BOOLEAN :
        store' = save_source_code(store, content, target, now, ioerr)
    /\ UNCHANGED <<now, slept, scrapeVars, allocVars, mainVars>>

\* The clock reaches the next second.
Tick ==
    /\ now < MaxTick
    /\ now' = now + 1
    /\ UNCHANGED <<store, slept, scrapeVars, allocVars, mainVars>>

NextSave == Save \/ Tick

SpecSave == InitSave /\ [][NextSave]_vars

(***************************************************************************)
(* C10.  No step removes or changes a file that is already in the store:   *)
(* every existing file is still there, with the same content, afterwards.  *)
(***************************************************************************)
C10_NeverOverwrites == [][\A f \in store : f \in store']_vars

(***************************************************************************)
(* gen_random_sleeps (lines 66-94).  Durations inside the function are     *)
(* counted in ticks of 1/Resolution second, so that a draw of              *)
(* random.uniform can fall between two whole seconds.                      *)
(***************************************************************************)
Resolution == 2

InitAlloc ==
    /\ IdleScrape /\ IdleMain /\ store = {} /\ now = 0 /\ slept = <<>>
    /\ min_sleep \in 0..MaxMin
    /\ max_total_time \in 0..MaxTotal
    /\ n_requests \in 0..MaxCount
    /\ g_pc = "check"
    /\ remaining_time = 0 /\ sleep_intervals = <<>> /\ g_i = 0
    /\ g_result = <<>>

\* Line 68
InvalidBudget(mn, mx, n) == n * mn > mx

\* Line 81-82: a is a possible value of random.uniform(0, remaining / left).
IsDraw(a, remaining, left) == a >= 0 /\ a * left <= remaining

\* The draw is not subtracted from the remaining time.
RemainingAfter_NotSubtracted(remaining, a) == remaining

\* Line 84
RemainingAfter(remaining, a) == remaining - a

\* Lines 68-76: the budget check and the initial slots.
GenCheck ==
    /\ g_pc = "check"
    /\ IF InvalidBudget(min_sleep, max_total_time, n_requests)
       THEN /\ g_pc' = "invalid_budget"
            /\ UNCHANGED <<remaining_time, sleep_intervals>>
       ELSE /\ remaining_time' =
                   (max_total_time - n_requests * min_sleep) * Resolution
            /\ sleep_intervals' =
                   [k \in 1..n_requests |-> min_sleep * Resolution]
            /\ g_pc' = "fill"
    /\ UNCHANGED <<min_sleep, max_total_time, n_requests, g_i, g_result,
                   scrapeVars, storeVars, mainVars>>

\* Lines 78-84: one iteration of the filling loop (g_i is the loop's i).
GenFill ==
    /\ g_pc = "fill" /\ g_i < n_requests /\ remaining_time > 0
    /\ \E a \in 0..remaining_time :
        /\ IsDraw(a, remaining_time, n_requests - g_i)
        /\ sleep_intervals' =
               [sleep_intervals EXCEPT ![g_i + 1] = @ + a]
        /\ remaining_time' = RemainingAfter(remaining_time, a)
    /\ g_i' = g_i + 1
    /\ UNCHANGED <<g_pc, min_sleep, max_total_time, n_requests, g_result,
                   scrapeVars, storeVars, mainVars>>

\* Lines 79-80 and 86-94: the loop ends, the size is checked, the list is
\* shuffled and returned.
GenReturn ==
    /\ g_pc = "fill" /\ (g_i >= n_requests \/ remaining_time <= 0)
    /\ IF Len(sleep_intervals) # n_requests
       THEN g_pc' = "size_mismatch" /\ g_result' = g_result
       ELSE /\ \E p \in Permutations(1..n_requests) :
                g_result' = [k \in 1..n_requests |-> sleep_intervals[p[k]]]
            /\ g_pc' = "returned"
    /\ UNCHANGED <<min_sleep, max_total_time, n_requests, remaining_time,
                   sleep_intervals, g_i, scrapeVars, storeVars, mainVars>>

NextAlloc == GenCheck \/ GenFill \/ GenReturn

SpecAlloc == InitAlloc /\ [][NextAlloc]_vars

RECURSIVE SumSeq(_)
SumSeq(q) == IF q = <<>> THEN 0 ELSE q[1] + SumSeq(Tail(q))

Count(q, v) == Cardinality({k \in 1..Len(q) : q[k] = v})

(***************************************************************************)
(* C9.  gen_random_sleeps raises ValueError exactly when                   *)
(* n_requests * min_sleep > max_total_time; otherwise it returns           *)
(* n_requests values, each at least min_sleep, with sum at most            *)
(* max_total_time, and the returned list is a permutation of the slots.    *)
(***************************************************************************)
C9_AllocatorContract ==
    /\ g_pc \in {"invalid_budget", "size_mismatch"} =>
           /\ g_pc = "invalid_budget"
           /\ n_requests * min_sleep > max_total_time
    /\ g_pc \in {"fill", "returned"} =>
           n_requests * min_sleep <= max_total_time
    /\ g_pc = "returned" =>
           /\ Len(g_result) = n_requests
           /\ \A k \in 1..Len(g_result) :
                  g_result[k] >= min_sleep * Resolution
           /\ SumSeq(g_result) <= max_total_time * Resolution
           /\ \A v \in Range(g_result) \cup Range(sleep_intervals) :
                  Count(g_result, v) = Count(sleep_intervals, v)

\* A returned schedule that uses the whole budget, was reordered by the
\* shuffle and holds a delay that is not a whole number of seconds.
C9_Witness ==
    /\ g_pc = "returned" /\ n_requests >= 2
    /\ g_result # sleep_intervals
    /\ SumSeq(g_result) = max_total_time * Resolution
    /\ \E k \in 1..Len(g_result) : g_result[k] % Resolution # 0

(***************************************************************************)
(* C11.  The politeness wait is made only for a response with a            *)
(* successful status, once per pair, for the delay of that pair, after     *)
(* the request was issued and before the page is written and the result    *)
(* delivered; a pair whose result is "error" has made no wait.             *)
(***************************************************************************)
C11_WaitState ==
    /\ \A k \in 1..Len(slept) :
        /\ slept[k].status < 400
        /\ slept[k].run = run =>
              /\ slept[k].duration = times[slept[k].idx]
              /\ slept[k].idx \in Requested
        /\ \A j \in 1..Len(slept) :
              (slept[j].run = slept[k].run /\ slept[j].idx = slept[k].idx)
                  => j = k
    /\ \A k \in 1..Len(yielded) :
        /\ yielded[k].action = "error" => yieldedAt[k] \notin Slept
        /\ yielded[k].action = "scrape" => yieldedAt[k] \in Slept
    /\ pc = "sleeping" => idx \notin Slept /\ idx \notin Delivered
    /\ pc = "saving" => idx \in Slept /\ idx \notin Delivered

C11_DelayOnSuccessOnly ==
    /\ []C11_WaitState
    /\ [][slept' # slept =>
            /\ pc = "sleeping" /\ store' = store /\ yielded' = yielded
            /\ now' = now + times[idx]]_vars
    /\ [][store' # store => pc = "saving" /\ idx \in Slept]_vars

\* An error result without a wait, then a page result after a wait of its delay.
C11_Witness ==
    /\ Len(yielded) = 2 /\ Len(slept) = 1
    /\ yielded[1].action = "error" /\ yielded[2].action = "scrape"
    /\ slept[1].idx = yieldedAt[2] /\ now = times[yieldedAt[2]]

(***************************************************************************)
(* C12.  Once a response of some level has status 429, no request is       *)
(* issued for a target of a later level, and when the run has finished     *)
(* the result log holds every result delivered.                            *)
(***************************************************************************)
C12_RateLimitStopsRun ==
    /\ \A k \in 1..Len(classified) :
        classified[k].status = 429 =>
            \A r \in Range(requests) : r.run <= classified[k].run
    /\ main_pc = "finished" =>
            log_written /\ scrape_results = all_results

(***************************************************************************)
(* C13 as claimed.  After a failed fetch that went through the session,    *)
(* the session has been closed and the variable is None when the next      *)
(* pair is taken.                                                          *)
(***************************************************************************)
C13_FailureClosesSession ==
    (pc = "loop" /\ via = "session" /\ Failed(response)) =>
        session = None /\ live = {}

(***************************************************************************)
(* C13 amended.  After a failed fetch that went through the session, the   *)
(* session is still held and live when the next pair is taken, and the     *)
(* next request with a delay below the threshold goes through that same    *)
(* session.                                                                *)
(***************************************************************************)
C13_FailureKeepsSession ==
    /\ []((pc \in {"yielded", "loop"} /\ via = "session" /\ Failed(response))
            => session # None /\ live = {session})
    /\ [][(pc = "loop" /\ via = "session" /\ Failed(response)
           /\ pc' = "fetching" /\ via' = "session")
            => session' = session /\ opened' = opened]_vars

\* The second request reuses the session on which the first fetch failed.
C13_Witness ==
    /\ pc = "fetching" /\ idx = 2 /\ via = "session"
    /\ Len(requests) = 2 /\ requests[1].via = "session"
    /\ Len(yielded) = 1 /\ yielded[1].action = "error"
    /\ opened = 1 /\ live = {1}

C15_SkipIsSilent ==
    /\ [](\A i \in 1..idx :
            InSnapshot(i) => i \notin (Requested \cup Delivered \cup Slept))
    /\ [][(pc = "loop" /\ idx' = idx + 1 /\ InSnapshot(idx + 1)) =>
            /\ pc' = "loop"
            /\ UNCHANGED <<requests, slept, now, store, yielded, yieldedAt,
                           session, live, opened, classified>>]_vars

\* A pair with a long delay was skipped while a session was live.
C15_Witness ==
    /\ pc = "loop" /\ idx = 2 /\ InSnapshot(2) /\ times[2] = 40
    /\ Requested = {1} /\ session = 1 /\ live = {1}

(***************************************************************************)
(* C16.  When the snapshot has just been taken, a target is in it exactly  *)
(* when the store holds a file whose name without its extension is the     *)
(* decoded segment of the target.                                          *)
(***************************************************************************)
C16_SkipIffArtifact ==
    LET StripExtension(n) ==
            LET dots == {k \in 1..Len(n) : n[k] = "."}
                last == IF dots = {} THEN Len(n) + 1
                        ELSE CHOOSE k \in dots : \A j \in dots : j <= k
            IN  SubSeq(n, 1, last - 1)
    IN  (pc = "loop" /\ idx = 0 /\ run = 1) =>
            \A i \in 1..Len(sites) :
                InSnapshot(i) <=>
                    \E n \in listdir(store) :
                        StripExtension(n) = unquote(LastSegment(sites[i]))

(***************************************************************************)
(* C17.  skip_sites does not change once the run has started, whatever is  *)
(* written; every pair taken whose name is not in it has been requested,   *)
(* a repeated target included.                                             *)
(***************************************************************************)
C17_SnapshotIsFrozen ==
    /\ [][(pc # "init" /\ pc' # "init") => skip_sites' = skip_sites]_vars
    /\ [](\A i \in 1..idx : ~InSnapshot(i) => i \in Requested)
    /\ [](\A i \in 1..(idx - 1) :
            (~InSnapshot(i) /\ pc # "init") => i \in Delivered)

\* The same target is requested a second time although the first request
\* has put its page into the store.
C17_Witness ==
    /\ pc = "fetching" /\ idx = 2 /\ sites[1] = sites[2]
    /\ Requested = {1, 2} /\ yielded[1].action = "scrape"
    /\ exists(store, HtmlName(unquote(LastSegment(sites[1]))))
    /\ unquote(LastSegment(sites[2])) \in SkipSites(store)
    /\ ~InSnapshot(2)

(***************************************************************************)
(* C18.  A fetch that raises, or a response with an HTTP error status      *)
(* other than 429, delivers the result ("error", site, delay, False) of    *)
(* its pair without a wait or a write, and when the caller asks for the    *)
(* next result the loop goes on with the same session state.               *)
(***************************************************************************)
C18_ErrorsAreYielded ==
    /\ [][(/\ pc = "fetching"
           /\ \/ response'.kind = "exception"
              \/ /\ response'.kind = "response"
                 /\ response'.status_code >= 400
                 /\ response'.status_code # 429) =>
            /\ pc' = "yielded"
            /\ yielded' = Append(yielded,
                   [action |-> "error", site |-> sites[idx],
                    sleep_time |-> times[idx], scraped |-> FALSE])
            /\ UNCHANGED <<store, slept, now>>]_vars
    /\ [][(pc = "yielded" /\ pc' # "abandoned") =>
            pc' = "loop" /\ UNCHANGED <<idx, session, live, yielded>>]_vars
    /\ [](pc = "loop" /\ idx < NPairs => ENABLED (Skip \/ Dispatch))

\* After a fetch that raised and a response with status 500, the third
\* request is in flight.
C18_Witness ==
    /\ pc = "fetching" /\ idx = 3 /\ Len(yielded) = 2
    /\ yielded[1].action = "error" /\ yielded[2].action = "error"
    /\ Len(classified) = 1 /\ classified[1].status = 500

(***************************************************************************)
(* C19.  When the write of the page fails with an I/O error, the result    *)
(* is still ("scrape", .., True), it is delivered, and no exception         *)
(* reaches the caller.                                                     *)
(***************************************************************************)
C19_WriteFailureIsSwallowed ==
    /\ pc # "crashed"
    /\ \A k \in 1..Len(classified) :
        classified[k].ioerr =>
            /\ classified[k].action = "scrape"
            /\ classified[k].scraped = TRUE
            /\ classified[k].status < 400
            /\ classified[k].run = run =>
                  \E j \in 1..Len(yielded) :
                      /\ yieldedAt[j] = classified[k].idx
                      /\ yielded[j].action = "scrape"
                      /\ yielded[j].scraped = TRUE

\* The write of the first page failed; the second request is in flight.
C19_Witness ==
    /\ pc = "fetching" /\ idx = 2 /\ Len(classified) = 1
    /\ classified[1].ioerr /\ store = {} /\ Len(slept) = 1

(***************************************************************************)
(* C20.  Pairs are taken one by one; no pair has two requests or two       *)
(* results; every pair taken that is not skipped has exactly one request;  *)
(* requests and results never outnumber the pairs of zip.                  *)
(***************************************************************************)
C20_Counts ==
    LET mine == SelectSeq(requests, LAMBDA r : r.run = run)
    IN  /\ idx <= NPairs
        /\ Len(mine) <= NPairs /\ Len(yielded) <= NPairs
        /\ Cardinality(Requested) = Len(mine)
        /\ Cardinality(Delivered) = Len(yieldedAt)
        /\ Requested \subseteq 1..idx
        /\ Delivered \subseteq Requested
        /\ \A i \in 1..idx : InSnapshot(i) \/ i \in Requested

C20_NoRetry ==
    /\ []C20_Counts
    /\ [][pc' # "init" => idx' \in {idx, idx + 1}]_vars

\* A finished run over three sites and two delays with an error result.
C20_Witness ==
    /\ pc = "done" /\ Len(sites) = 3 /\ Len(times) = 2
    /\ Len(requests) = 2 /\ Len(yielded) = 2
    /\ yielded[1].action = "error"

====
